---- MODULE Spec2Model ----
(***************************************************************************)
(* Wythoff construction of uniform polytopes (polytopes/models.py):        *)
(* BasePolytope, Polyhedra, Snub, Polychora, Polytope5D and Snub24Cell.    *)
(*                                                                         *)
(* Vertex indices, generators and table rows are 0-based as in the source. *)
(* A coset table is a function 0..n-1 -> (0..ng-1 -> 0..n-1); a word is a  *)
(* sequence of generators; None and the empty list are modelled by <<>>.   *)
(***************************************************************************)
EXTENDS Integers, Sequences, FiniteSets, TLC

(***************************************************************************)
(* Bounds of the model.                                                    *)
(***************************************************************************)
\* prisms (p, 2, 2) are built for p = 2..MaxPrism
MaxPrism == 4
\* proj4d is called at most MaxProj times on one object
MaxProj == 2
\* words checked against the vertex table have at most MaxWord generators
MaxWord == 3

(***************************************************************************)
(* Python helpers: tuple * k, itertools.combinations(range(n), 2).         *)
(***************************************************************************)
Times(word, k) == [t \in 1..(Len(word) * k) |-> word[((t - 1) % Len(word)) + 1]]

RECURSIVE PairsFrom(_, _, _)
PairsFrom(i, j, n) ==
    IF i >= n - 1 THEN <<>>
    ELSE IF j >= n THEN PairsFrom(i + 1, i + 2, n)
    ELSE <<(<<i, j>>)>> \o PairsFrom(i, j + 1, n)

combinations(n) == PairsFrom(0, 1, n)

RECURSIVE SumLen(_)
SumLen(lists) == IF lists = <<>> THEN 0 ELSE Len(Head(lists)) + SumLen(Tail(lists))

Range(s) == {s[k] : k \in DOMAIN s}

(***************************************************************************)
(* helpers.get_coxeter_matrix: the diagram fills the upper triangle in the *)
(* order of combinations(range(n), 2); the diagonal is 1.                  *)
(***************************************************************************)
Dim(diagram) == CHOOSE n \in 1..6 : (n * (n - 1)) \div 2 = Len(diagram)

PairIndex(i, j, n) == CHOOSE k \in 1..Len(combinations(n)) : combinations(n)[k] = <<i, j>>

get_coxeter_matrix(diagram) ==
    LET n == Dim(diagram)
    IN [i \in 0..(n - 1) |-> [j \in 0..(n - 1) |->
           IF i = j THEN 1
           ELSE IF i < j THEN diagram[PairIndex(i, j, n)]
           ELSE diagram[PairIndex(j, i, n)]]]

(***************************************************************************)
(* The coset enumerator (todd_coxeter.CosetTable): the HLT strategy of the *)
(* Todd-Coxeter procedure.  While the table is built, cosets are numbered  *)
(* from 1 and 0 marks an empty entry; row c holds the image of c under     *)
(* generator x at position x + 1.  T.tab is the table under construction,  *)
(* T.p the equivalence classes of cosets, T.q the queue of dead cosets.    *)
(***************************************************************************)
\* the inverse of a generator: itself for reflections, its partner
\* (0 <-> 1, 2 <-> 3, ...) when the generators come in inverse pairs
inv(x, coxeter) == IF coxeter THEN x ELSE IF x % 2 = 0 THEN x + 1 ELSE x - 1

RECURSIVE rep(_, _)
rep(p, c) == IF p[c] = c THEN c ELSE rep(p, p[c])

EmptyRow(ng) == [y \in 1..ng |-> 0]

NewTable(ng) == [ng |-> ng, tab |-> <<EmptyRow(ng)>>, p |-> <<1>>, q |-> <<>>]

define(T, c, x, coxeter) ==
    LET n == Len(T.tab) + 1
    IN [T EXCEPT !.tab = Append([T.tab EXCEPT ![c][x + 1] = n],
                                [EmptyRow(T.ng) EXCEPT ![inv(x, coxeter) + 1] = c]),
                 !.p = Append(T.p, n)]

Union(T, a, b) ==
    IF a = b THEN T
    ELSE IF a < b THEN [T EXCEPT !.p[b] = a, !.q = Append(@, b)]
    ELSE [T EXCEPT !.p[a] = b, !.q = Append(@, a)]

merge(T, k, l) == Union(T, rep(T.p, k), rep(T.p, l))

\* the entry of the dead coset under x, now between the live classes e1, f1
Relink(T, x, xi, e1, f1) ==
    IF T.tab[e1][x + 1] # 0 THEN Union(T, f1, rep(T.p, T.tab[e1][x + 1]))
    ELSE IF T.tab[f1][xi + 1] # 0 THEN Union(T, e1, rep(T.p, T.tab[f1][xi + 1]))
    ELSE [T EXCEPT !.tab = [[T.tab EXCEPT ![e1][x + 1] = f1] EXCEPT ![f1][xi + 1] = e1]]

Unlink(T, e, f, x, xi) ==
    Relink([T EXCEPT !.tab[f][xi + 1] = 0], x, xi, rep(T.p, e), rep(T.p, f))

\* one generator of one dead coset e: its entry moves to the live class
DeadStep(T, e, x, coxeter) ==
    IF T.tab[e][x + 1] = 0 THEN T
    ELSE Unlink(T, e, T.tab[e][x + 1], x, inv(x, coxeter))

RECURSIVE DeadGens(_, _, _, _)
DeadGens(T, e, x, coxeter) ==
    IF x >= T.ng THEN T ELSE DeadGens(DeadStep(T, e, x, coxeter), e, x + 1, coxeter)

RECURSIVE ProcessDead(_, _)
ProcessDead(T, coxeter) ==
    IF T.q = <<>> THEN T
    ELSE ProcessDead(DeadGens([T EXCEPT !.q = Tail(@)], Head(T.q), 0, coxeter), coxeter)

coincidence(T, a, b, coxeter) == ProcessDead(merge(T, a, b), coxeter)

RECURSIVE ScanFwd(_, _, _, _, _)
ScanFwd(tab, w, f, i, j) ==
    IF i <= j /\ tab[f][w[i] + 1] # 0 THEN ScanFwd(tab, w, tab[f][w[i] + 1], i + 1, j)
    ELSE <<f, i>>

RECURSIVE ScanBwd(_, _, _, _, _, _)
ScanBwd(tab, w, b, i, j, coxeter) ==
    IF j >= i /\ tab[b][inv(w[j], coxeter) + 1] # 0
    THEN ScanBwd(tab, w, tab[b][inv(w[j], coxeter) + 1], i, j - 1, coxeter)
    ELSE <<b, j>>

Deduce(T, f, x, b, xi) ==
    [T EXCEPT !.tab = [[T.tab EXCEPT ![f][x + 1] = b] EXCEPT ![b][xi + 1] = f]]

RECURSIVE ScanLoop(_, _, _, _, _, _, _)

\* after the backward scan bw = <<b, j>>, the forward scan standing at f, i
AfterBwd(T, w, f, i, bw, coxeter) ==
    IF bw[2] < i THEN coincidence(T, f, bw[1], coxeter)
    ELSE IF bw[2] = i THEN Deduce(T, f, w[i], bw[1], inv(w[i], coxeter))
    ELSE ScanLoop(define(T, f, w[i], coxeter), w, f, bw[1], i, bw[2], coxeter)

\* after the forward scan fw = <<f, i>>
AfterFwd(T, w, fw, b, j, coxeter) ==
    IF fw[2] > j THEN (IF fw[1] # b THEN coincidence(T, fw[1], b, coxeter) ELSE T)
    ELSE AfterBwd(T, w, fw[1], fw[2], ScanBwd(T.tab, w, b, fw[2], j, coxeter), coxeter)

ScanLoop(T, w, f, b, i, j, coxeter) ==
    AfterFwd(T, w, ScanFwd(T.tab, w, f, i, j), b, j, coxeter)

scan_and_fill(T, c, w, coxeter) == ScanLoop(T, w, c, c, 1, Len(w), coxeter)

\* scan coset c under the words ws[k..], as long as c stays alive
RECURSIVE ScanAll(_, _, _, _, _)
ScanAll(T, c, ws, k, coxeter) ==
    IF k > Len(ws) \/ T.p[c] # c THEN T
    ELSE ScanAll(scan_and_fill(T, c, ws[k], coxeter), c, ws, k + 1, coxeter)

RECURSIVE FillRow(_, _, _, _)
FillRow(T, c, x, coxeter) ==
    IF x >= T.ng THEN T
    ELSE FillRow(IF T.tab[c][x + 1] = 0 THEN define(T, c, x, coxeter) ELSE T,
                 c, x + 1, coxeter)

FillIfAlive(T, c, coxeter) == IF T.p[c] = c THEN FillRow(T, c, 0, coxeter) ELSE T

ProcessCoset(T, c, rels, coxeter) ==
    IF T.p[c] # c THEN T ELSE FillIfAlive(ScanAll(T, c, rels, 1, coxeter), c, coxeter)

\* the cosets lo..hi-1 in order (halved, to keep the evaluation shallow)
RECURSIVE HltBlock(_, _, _, _, _)
HltBlock(T, lo, hi, rels, coxeter) ==
    IF lo > Len(T.tab) THEN T
    ELSE IF hi = lo + 1 THEN ProcessCoset(T, lo, rels, coxeter)
    ELSE LET mid == (lo + hi) \div 2
         IN HltBlock(HltBlock(T, lo, mid, rels, coxeter), mid, hi, rels, coxeter)

RECURSIVE HltLoop(_, _, _, _)
HltLoop(T, c, rels, coxeter) ==
    IF c > Len(T.tab) THEN T
    ELSE HltLoop(HltBlock(T, c, c + 16, rels, coxeter), c + 16, rels, coxeter)

hlt(ng, rels, subgens, coxeter) ==
    HltLoop(ScanAll(NewTable(ng), 1, subgens, 1, coxeter), 1, rels, coxeter)

(***************************************************************************)
(* compress and standardize: the live cosets are renumbered in the order   *)
(* in which a row-by-row scan of the table meets them; get_words gives the *)
(* word along which each coset was met.  B.ord lists the old numbers in    *)
(* the new order, B.num maps old to new, B.words are the words.            *)
(***************************************************************************)
Visit(tab, B, k, x) ==
    LET t == tab[B.ord[k]][x + 1] IN
    IF B.num[t] # 0 THEN B
    ELSE [ord |-> Append(B.ord, t),
          num |-> [B.num EXCEPT ![t] = Len(B.ord) + 1],
          words |-> Append(B.words, Append(B.words[k], x))]

RECURSIVE VisitRow(_, _, _, _, _)
VisitRow(tab, B, k, x, ng) ==
    IF x >= ng THEN B ELSE VisitRow(tab, Visit(tab, B, k, x), k, x + 1, ng)

RECURSIVE StdBlock(_, _, _, _, _)
StdBlock(tab, B, lo, hi, ng) ==
    IF lo > Len(B.ord) THEN B
    ELSE IF hi = lo + 1 THEN VisitRow(tab, B, lo, 0, ng)
    ELSE LET mid == (lo + hi) \div 2
         IN StdBlock(tab, StdBlock(tab, B, lo, mid, ng), mid, hi, ng)

RECURSIVE StdLoop(_, _, _, _)
StdLoop(tab, B, k, ng) ==
    IF k > Len(B.ord) THEN B ELSE StdLoop(tab, StdBlock(tab, B, k, k + 16, ng), k + 16, ng)

standardize(T) ==
    StdLoop(T.tab,
            [ord |-> <<1>>,
             num |-> [[c \in 1..Len(T.tab) |-> 0] EXCEPT ![1] = 1],
             words |-> <<(<<>>)>>],
            1, T.ng)

Renumbered(T, B) ==
    [table |-> [c \in 0..(Len(B.ord) - 1) |-> [x \in 0..(T.ng - 1) |->
                  B.num[T.tab[B.ord[c + 1]][x + 1]] - 1]],
     words |-> [c \in 0..(Len(B.ord) - 1) |-> B.words[c + 1]]]

Standardized(T) == Renumbered(T, standardize(T))

\* CosetTable(gens, rels, subgens, coxeter) followed by run() and get_words():
\* [table |-> the action table, words |-> one representative word per coset],
\* both indexed from 0
CosetTable(ng, rels, subgens, coxeter) == Standardized(hlt(ng, rels, subgens, coxeter))

(***************************************************************************)
(* Exact rationals <<numerator, denominator>> (denominator > 0, lowest     *)
(* terms) for the coordinates the 5D projection computes.                  *)
(***************************************************************************)
Abs(a) == IF a < 0 THEN -a ELSE a

RECURSIVE Gcd(_, _)
Gcd(a, b) == IF b = 0 THEN a ELSE Gcd(b, a % b)

Rat(n, d) ==
    LET g == Gcd(Abs(n), Abs(d))
    IN IF d > 0 THEN <<n \div g, d \div g>> ELSE <<(-n) \div g, (-d) \div g>>

RNeg(a) == <<-a[1], a[2]>>
RSub(a, b) == Rat(a[1] * b[2] - b[1] * a[2], a[2] * b[2])
RDiv(a, b) == Rat(a[1] * b[2], a[2] * b[1])

(***************************************************************************)
(* The constructor arguments the model draws from.                         *)
(***************************************************************************)
Bits(n) == {v \in [1..n -> {0, 1}] : TRUE}

\* finite reflection groups of rank 3: A3, B3, H3 and the prisms
Diagrams3 == {<<3, 2, 3>>, <<4, 2, 3>>, <<5, 2, 3>>} \cup {<<p, 2, 2>> : p \in 2..MaxPrism}
\* rank 4: A4, A2 x A2, A1^4
Diagrams4 == {<<3, 2, 2, 3, 2, 3>>, <<3, 2, 2, 2, 2, 3>>, <<2, 2, 2, 2, 2, 2>>}
Dists4 == {<<1, 0, 0, 0>>, <<0, 1, 0, 0>>, <<1, 0, 0, 1>>, <<0, 1, 1, 0>>, <<1, 1, 1, 1>>}
\* rank 5: A1^5, whose mirrors are the coordinate hyperplanes
Diagrams5 == {<<2, 2, 2, 2, 2, 2, 2, 2, 2, 2>>}
Dists5 == {<<0, 0, 0, 0, 1>>, <<0, 0, 0, 3, 4>>, <<3, 0, 0, 0, 4>>, <<0, 4, 0, 3, 0>>}
\* pole arguments of proj4d, in tenths
Poles == {13, 15, 20}

Args(cls, diagrams, dists) ==
    {[cls |-> cls, coxeter_diagram |-> d, init_dist |-> v] : d \in diagrams, v \in dists}

GoodArgs ==
    Args("Polyhedra", Diagrams3, Bits(3))
    \cup Args("Snub", Diagrams3, {<<1, 1, 1>>})
    \cup Args("Polychora", Diagrams4, Dists4)
    \cup Args("Polytope5D", Diagrams5, Dists5)
    \cup Args("Snub24Cell", {<<3, 2, 2, 3, 3, 2>>}, {<<1, 1, 1, 1>>})

\* arguments whose lengths do not fit the class
BadArgs ==
    Args("Polyhedra", {<<3, 2, 3>>}, {<<1, 0, 0, 0>>})
    \cup Args("Polyhedra", {<<3, 2, 2, 3, 2, 3>>}, {<<1, 0, 0>>, <<1, 0, 0, 0>>})
    \cup Args("Snub", {<<3, 2, 3>>}, {<<1, 1, 1, 1>>})
    \cup Args("Polychora", {<<3, 2, 3>>}, {<<1, 0, 0>>, <<1, 0, 0, 0>>})
    \cup Args("Polychora", {<<3, 2, 2, 3, 2, 3>>}, {<<1, 0, 0>>})
    \cup Args("Polytope5D", Diagrams5, {<<1, 0, 0, 0>>, <<1, 0, 0>>})
    \cup Args("Polytope5D", {<<3, 2, 2, 3, 2, 3>>}, {<<0, 0, 0, 0, 1>>, <<1, 0, 0, 0>>})
    \cup Args("Polytope5D", {<<3, 2, 3>>}, {<<1, 0, 0>>})

(***************************************************************************)
(* The state: the constructor call, the position of the caller, and the    *)
(* fields of the polytope object.                                          *)
(***************************************************************************)
VARIABLES
    args,             \* the class and the arguments of the constructor call
    pc,               \* "new", "constructed", "vertices", "edges", "built", "failed"
    raised,           \* the exception that ended the run ("" for none)
    coxeter_matrix,
    active,
    symmetry_gens,
    symmetry_rels,
    rotations,        \* Snub, Snub24Cell: the dict {rotation: order} in order
    vtable,
    vwords,
    num_vertices,
    num_edges,
    num_faces,
    vertices_coords,
    edge_indices,
    face_indices,
    edge_types,       \* history: the type of each list of edge_indices
    face_types,       \* history: the type of each list of face_indices
    poles             \* history: the pole argument of each proj4d call

symmetry == <<coxeter_matrix, active, symmetry_gens, symmetry_rels, rotations>>
vertex_data == <<vtable, vwords, num_vertices, vertices_coords>>
edge_data == <<num_edges, edge_indices, edge_types>>
face_data == <<num_faces, face_indices, face_types>>
vars == <<args, pc, raised, symmetry, vertex_data, edge_data, face_data, poles>>

IsSnub == args.cls \in {"Snub", "Snub24Cell"}

Init ==
    /\ args \in GoodArgs \cup BadArgs
    /\ pc = "new"
    /\ raised = ""
    /\ coxeter_matrix = <<>>
    /\ active = <<>>
    /\ symmetry_gens = <<>>
    /\ symmetry_rels = <<>>
    /\ rotations = <<>>
    /\ vtable = <<>>
    /\ vwords = <<>>
    /\ num_vertices = 0
    /\ num_edges = 0
    /\ num_faces = 0
    /\ vertices_coords = <<>>
    /\ edge_indices = <<>>
    /\ face_indices = <<>>
    /\ edge_types = <<>>
    /\ face_types = <<>>
    /\ poles = <<>>

(***************************************************************************)
(* Construction.                                                           *)
(***************************************************************************)
\* the length checks of Polyhedra, Polychora and Polytope5D: TRUE to go on
\* to BasePolytope.__init__, FALSE to raise the length error
LengthCheck(cls, diagram, dist) ==
    CASE cls \in {"Polyhedra", "Snub"} -> Len(diagram) = Len(dist) /\ Len(dist) = 3
      [] cls \in {"Polychora", "Snub24Cell"} -> Len(diagram) = 6 /\ Len(dist) = 4
      [] cls = "Polytope5D" -> ~(Len(diagram) # 10 /\ Len(dist) # 5)

BaseRels(m) ==
    LET pairs == combinations(Cardinality(DOMAIN m))
    IN [k \in 1..Len(pairs) |-> Times(pairs[k], m[pairs[k][1]][pairs[k][2]])]

Rot(word, order) == [rot |-> word, order |-> order]

SnubRels(m) ==
    <<Times(<<0>>, m[0][1]), Times(<<2>>, m[1][2]), Times(<<0, 2>>, m[0][2]),
      <<0, 1>>, <<2, 3>>>>

SnubRotations(m) == <<Rot(<<0>>, m[0][1]), Rot(<<2>>, m[1][2]), Rot(<<0, 2>>, m[0][2])>>

Snub24Rels ==
    <<Times(<<0>>, 3), Times(<<2>>, 3), Times(<<4>>, 3),
      Times(<<0, 2>>, 2), Times(<<0, 4>>, 2), Times(<<3, 4>>, 2),
      <<0, 1>>, <<2, 3>>, <<4, 5>>>>

Snub24Rotations ==
    <<Rot(<<0>>, 3), Rot(<<2>>, 3), Rot(<<4>>, 3),
      Rot(<<0, 2>>, 2), Rot(<<0, 4>>, 2), Rot(<<3, 4>>, 2)>>

\* BasePolytope.__init__ and the overrides of Snub and Snub24Cell.  The
\* helpers raise when the distance vector does not fit the mirrors, after
\* the Coxeter matrix, the mirrors and the reflections have been computed.
Construct ==
    /\ pc = "new"
    /\ LET cls == args.cls
           m == get_coxeter_matrix(args.coxeter_diagram)
           n == Dim(args.coxeter_diagram)
       IN IF ~LengthCheck(cls, args.coxeter_diagram, args.init_dist)
          THEN /\ pc' = "failed"
               /\ raised' = "LengthError"
               /\ UNCHANGED symmetry
          ELSE IF n # Len(args.init_dist)
          THEN /\ pc' = "failed"
               /\ raised' = "helpers"
               /\ coxeter_matrix' = m
               /\ UNCHANGED <<active, symmetry_gens, symmetry_rels, rotations>>
          ELSE /\ pc' = "constructed"
               /\ raised' = ""
               /\ coxeter_matrix' = m
               /\ active' = [i \in 0..(n - 1) |-> args.init_dist[i + 1] # 0]
               /\ symmetry_gens' = CASE cls = "Snub" -> <<0, 1, 2, 3>>
                                     [] cls = "Snub24Cell" -> <<0, 1, 2, 3, 4, 5>>
                                     [] OTHER -> [k \in 1..n |-> k - 1]
               /\ symmetry_rels' = CASE cls = "Snub" -> SnubRels(m)
                                     [] cls = "Snub24Cell" -> Snub24Rels
                                     [] OTHER -> BaseRels(m)
               /\ rotations' = CASE cls = "Snub" -> SnubRotations(m)
                                 [] cls = "Snub24Cell" -> Snub24Rotations
                                 [] OTHER -> <<>>
    /\ UNCHANGED <<args, vertex_data, edge_data, face_data, poles>>

(***************************************************************************)
(* transform and move.  A vector is kept exactly: the initial point with   *)
(* the reflections applied to it so far, in order (kind "point"), or, once *)
(* projected, its rational coordinates (kind "coords").                    *)
(***************************************************************************)
init_v == [kind |-> "point", refl |-> <<>>, num |-> <<>>]

\* the reflections one generator stands for in transform
Reflections(cls, g) ==
    CASE cls = "Snub" -> IF g = 0 THEN <<0, 1>> ELSE <<1, 2>>
      [] cls = "Snub24Cell" -> IF g = 0 THEN <<0, 1>>
                               ELSE IF g = 2 THEN <<1, 2>>
                               ELSE <<1, 3>>
      [] OTHER -> <<g>>

\* Fault: the generators of the word applied from its end
RECURSIVE transformReversed(_, _)
transformReversed(vector, word) ==
    IF word = <<>> THEN vector
    ELSE transformReversed(
             [vector EXCEPT !.refl = @ \o Reflections(args.cls, word[Len(word)])],
             SubSeq(word, 1, Len(word) - 1))

RECURSIVE transform(_, _)
transform(vector, word) ==
    IF word = <<>> THEN vector
    ELSE transform([vector EXCEPT !.refl = @ \o Reflections(args.cls, Head(word))],
                   Tail(word))

RECURSIVE move(_, _)
move(vertex, word) ==
    IF word = <<>> THEN vertex ELSE move(vtable[vertex][Head(word)], Tail(word))

Singletons(gens) == [k \in 1..Len(gens) |-> <<gens[k]>>]

\* Fault: the mirrors that fix v0, commuting with subgens or not
StabilizingMirrors(subgens) ==
    LET Fixes(s) == ~active[s]
    IN Singletons(SelectSeq(symmetry_gens, Fixes))

get_orthogonal_stabilizing_mirrors(subgens) ==
    LET Fixes(s) == /\ \A k \in 1..Len(subgens) : coxeter_matrix[subgens[k]][s] = 2
                    /\ ~active[s]
    IN Singletons(SelectSeq(symmetry_gens, Fixes))

Type(kind, gens) == [kind |-> kind, gens |-> gens]

\* the words of the cosets of the subgroup generated by subgens
Enumerate(subgens) ==
    CosetTable(Len(symmetry_gens), symmetry_rels, subgens, ~IsSnub).words

\* a list of the images of a base tuple of vertices under the words
Orbit(base, words) ==
    [k \in 1..Cardinality(DOMAIN words) |->
        [t \in 1..Len(base) |-> move(base[t], words[k - 1])]]

(***************************************************************************)
(* get_vertices                                                            *)
(***************************************************************************)
\* Fault: the generators of the vertex stabilizer taken from the active mirrors
VertexGensActive ==
    IF IsSnub THEN <<>>
    ELSE LET Active(i) == active[i] IN Singletons(SelectSeq(symmetry_gens, Active))

VertexGens ==
    IF IsSnub THEN <<>>
    ELSE LET Inactive(i) == ~active[i] IN Singletons(SelectSeq(symmetry_gens, Inactive))

\* a table that has not run: the row of the first coset, nothing defined
UnrunTable == [c \in {0} |-> [x \in Range(symmetry_gens) |-> -1]]

SetVertices(T) ==
    /\ vtable' = T.table
    /\ vwords' = T.words
    /\ num_vertices' = Cardinality(DOMAIN T.words)
    /\ vertices_coords' = [k \in DOMAIN T.words |-> transform(init_v, T.words[k])]

GetVertices ==
    /\ pc = "constructed"
    /\ \/ /\ SetVertices(CosetTable(Len(symmetry_gens), symmetry_rels, VertexGens, ~IsSnub))
          /\ pc' = "vertices"
          /\ raised' = ""
       \* the enumeration fails, in the constructor of the table or in its
       \* run: nothing after it is assigned
       \/ /\ pc' = "failed"
          /\ raised' = "get_vertices"
          /\ \E assigned \in BOOLEAN : vtable' = IF assigned THEN UnrunTable ELSE vtable
          /\ UNCHANGED <<vwords, num_vertices, vertices_coords>>
    /\ UNCHANGED <<args, symmetry, edge_data, face_data, poles>>

(***************************************************************************)
(* get_edges.  Each class gives the types in the order of its loop, with   *)
(* the list of each type; Enumerates says whether a type runs the          *)
(* enumerator.                                                             *)
(***************************************************************************)
BaseEdgeTypes ==
    LET Active(i) == active[i]
        mirrors == SelectSeq(symmetry_gens, Active)
    IN [k \in 1..Len(mirrors) |-> Type("mirror", <<mirrors[k]>>)]

\* Fault: the reflection about mirror i applied after the word, not before
BaseEdgesWordFirst(i, words) ==
    [k \in 1..Cardinality(DOMAIN words) |->
        <<move(0, words[k - 1]), move(0, words[k - 1] \o <<i>>)>>]

BaseEdges(i, words) ==
    [k \in 1..Cardinality(DOMAIN words) |->
        <<move(0, words[k - 1]), move(0, <<i>> \o words[k - 1])>>]

BaseEdgeList(i) ==
    BaseEdges(i, Enumerate(<<(<<i>>)>> \o get_orthogonal_stabilizing_mirrors(<<i>>)))

SnubEdgeTypes == [k \in 1..Len(rotations) |-> Type("rotation", rotations[k].rot)]

Order(rot) == (CHOOSE r \in Range(rotations) : r.rot = rot).order

SnubEdgeList(rot) ==
    Orbit(<<0, move(0, rot)>>, IF Order(rot) = 2 THEN Enumerate(<<rot>>) ELSE vwords)

EdgeTypes == IF IsSnub THEN SnubEdgeTypes ELSE BaseEdgeTypes

EdgeList(type) ==
    IF IsSnub THEN SnubEdgeList(type.gens) ELSE BaseEdgeList(type.gens[1])

EdgeEnumerates(type) == IF IsSnub THEN Order(type.gens) = 2 ELSE TRUE

RECURSIVE EdgeLists(_, _)
EdgeLists(types, k) ==
    IF k > Len(types) THEN <<>> ELSE <<EdgeList(types[k])>> \o EdgeLists(types, k + 1)

\* Fault: the counter is advanced before the words of a type are enumerated
AppendEdgesCountFirst(types, lists) ==
    \E done \in 0..Len(types) :
        /\ done < Len(types) => EdgeEnumerates(types[done + 1])
        /\ edge_indices' = edge_indices \o SubSeq(lists, 1, done)
        /\ num_edges' = num_edges + SumLen(SubSeq(lists, 1, IF done < Len(types) THEN done + 1 ELSE done))
        /\ edge_types' = edge_types \o SubSeq(types, 1, done)
        /\ pc' = IF done = Len(types) THEN "edges" ELSE "failed"
        /\ raised' = IF done = Len(types) THEN "" ELSE "get_edges"

\* the loop over the types: it ends, or the enumeration of a type fails and
\* the lists of the types before it stay
AppendEdges(types, lists) ==
    \E done \in 0..Len(types) :
        /\ done < Len(types) => EdgeEnumerates(types[done + 1])
        /\ edge_indices' = edge_indices \o SubSeq(lists, 1, done)
        /\ num_edges' = num_edges + SumLen(SubSeq(lists, 1, done))
        /\ edge_types' = edge_types \o SubSeq(types, 1, done)
        /\ pc' = IF done = Len(types) THEN "edges" ELSE "failed"
        /\ raised' = IF done = Len(types) THEN "" ELSE "get_edges"

GetEdges ==
    /\ pc = "vertices"
    /\ AppendEdges(EdgeTypes, EdgeLists(EdgeTypes, 1))
    /\ UNCHANGED <<args, symmetry, vertex_data, face_data, poles>>

(***************************************************************************)
(* get_faces                                                               *)
(***************************************************************************)
\* Fault: a single active mirror generates a face whatever the order m
BaseFaceAnyOrder(i, j) ==
    LET m == coxeter_matrix[i][j] IN
    IF active[i] /\ active[j]
    THEN [t \in 1..(2 * m) |->
            IF t % 2 = 1 THEN move(0, Times(<<i, j>>, (t - 1) \div 2))
            ELSE move(0, <<j>> \o Times(<<i, j>>, (t - 2) \div 2))]
    ELSE IF active[i] \/ active[j]
    THEN [t \in 1..m |-> move(0, Times(<<i, j>>, t - 1))]
    ELSE <<>>

\* the base face of the mirrors i, j; <<>> when they generate no face
BaseFace(i, j) ==
    LET m == coxeter_matrix[i][j] IN
    IF active[i] /\ active[j]
    THEN [t \in 1..(2 * m) |->
            IF t % 2 = 1 THEN move(0, Times(<<i, j>>, (t - 1) \div 2))
            ELSE move(0, <<j>> \o Times(<<i, j>>, (t - 2) \div 2))]
    ELSE IF (active[i] \/ active[j]) /\ m > 2
    THEN [t \in 1..m |-> move(0, Times(<<i, j>>, t - 1))]
    ELSE <<>>

BaseFaceTypes ==
    LET pairs == combinations(Len(symmetry_gens))
        Generates(pair) == BaseFace(pair[1], pair[2]) # <<>>
        kept == SelectSeq(pairs, Generates)
    IN [k \in 1..Len(kept) |-> Type("mirror", kept[k])]

BaseFaceList(i, j) ==
    Orbit(BaseFace(i, j),
          Enumerate(<<(<<i>>), (<<j>>)>> \o get_orthogonal_stabilizing_mirrors(<<i, j>>)))

\* Fault: the rotation applied for k = 0, ..., order
RotationFaceClosed(rot) == [t \in 1..(Order(rot) + 1) |-> move(0, Times(rot, t - 1))]

RotationFace(rot) == [t \in 1..Order(rot) |-> move(0, Times(rot, t - 1))]

\* Fault: the rotations of order 2 give faces as well
SnubFaceTypesAnyOrder ==
    [k \in 1..Len(rotations) |-> Type("rotation", rotations[k].rot)]
    \o <<Type("triangle", <<2, 0, 2>>)>>

SnubFaceTypes ==
    LET Generates(r) == r.order > 2
        kept == SelectSeq(rotations, Generates)
    IN [k \in 1..Len(kept) |-> Type("rotation", kept[k].rot)]
       \o <<Type("triangle", <<2, 0, 2>>)>>

Snub24FaceTypes ==
    <<Type("rotation", <<0>>), Type("rotation", <<2>>), Type("rotation", <<4>>),
      Type("triangle", <<2, 0, 2>>), Type("triangle", <<4, 0, 4>>),
      Type("triangle", <<2, 5, 2>>), Type("triangle", <<0, 2, 5, 2>>)>>

\* Fault: the two rotations of the third vertex in the other order
TriangleSwapped(gens) ==
    IF Len(gens) = 3
    THEN <<0, move(0, <<gens[1]>>), move(0, <<gens[3], gens[2]>>)>>
    ELSE <<0, move(0, <<gens[1], gens[2]>>), move(0, <<gens[4], gens[3]>>)>>

\* a triangle (0, move(0, a), move(0, b)), its type holding a followed by b
Triangle(gens) ==
    IF Len(gens) = 3
    THEN <<0, move(0, <<gens[1]>>), move(0, <<gens[2], gens[3]>>)>>
    ELSE <<0, move(0, <<gens[1], gens[2]>>), move(0, <<gens[3], gens[4]>>)>>

SnubFaceList(type) ==
    IF type.kind = "rotation"
    THEN Orbit(RotationFace(type.gens), Enumerate(<<type.gens>>))
    ELSE Orbit(Triangle(type.gens), vwords)

FaceTypes ==
    CASE args.cls = "Snub" -> SnubFaceTypes
      [] args.cls = "Snub24Cell" -> Snub24FaceTypes
      [] OTHER -> BaseFaceTypes

FaceList(type) ==
    IF IsSnub THEN SnubFaceList(type) ELSE BaseFaceList(type.gens[1], type.gens[2])

FaceEnumerates(type) == type.kind # "triangle"

RECURSIVE FaceLists(_, _)
FaceLists(types, k) ==
    IF k > Len(types) THEN <<>> ELSE <<FaceList(types[k])>> \o FaceLists(types, k + 1)

AppendFaces(types, lists) ==
    \E done \in 0..Len(types) :
        /\ done < Len(types) => FaceEnumerates(types[done + 1])
        /\ face_indices' = face_indices \o SubSeq(lists, 1, done)
        /\ num_faces' = num_faces + SumLen(SubSeq(lists, 1, done))
        /\ face_types' = face_types \o SubSeq(types, 1, done)
        /\ pc' = IF done = Len(types) THEN "built" ELSE "failed"
        /\ raised' = IF done = Len(types) THEN "" ELSE "get_faces"

GetFaces ==
    /\ pc = "edges"
    /\ AppendFaces(FaceTypes, FaceLists(FaceTypes, 1))
    /\ UNCHANGED <<args, symmetry, vertex_data, edge_data, poles>>

(***************************************************************************)
(* Polytope5D.proj4d.  For the diagram of A1^5 the mirrors are the         *)
(* coordinate hyperplanes: reflection w negates coordinate w, and the      *)
(* initial point is the distance vector scaled to length 1.                *)
(***************************************************************************)
RECURSIVE SumSq(_)
SumSq(v) == IF v = <<>> THEN 0 ELSE Head(v) * Head(v) + SumSq(Tail(v))

get_init_point(dist) ==
    LET norm == CHOOSE r \in 0..SumSq(dist) : r * r = SumSq(dist)
    IN [c \in 1..Len(dist) |-> Rat(dist[c], norm)]

RECURSIVE Reflect(_, _)
Reflect(point, refl) ==
    IF refl = <<>> THEN point
    ELSE Reflect([point EXCEPT ![Head(refl) + 1] = RNeg(@)], Tail(refl))

\* the coordinates of a stored vector
Coords(v) ==
    IF v.kind = "coords" THEN v.num ELSE Reflect(get_init_point(args.init_dist), v.refl)

\* v[:4] / (1.3 - v[-1])
Project(v) ==
    LET x == Coords(v)
        n == IF Len(x) < 4 THEN Len(x) ELSE 4
    IN [kind |-> "coords", refl |-> <<>>,
        num |-> [c \in 1..n |-> RDiv(x[c], RSub(Rat(13, 10), x[Len(x)]))]]

Proj4d ==
    /\ args.cls = "Polytope5D"
    /\ pc \in {"constructed", "built"}
    /\ Len(poles) < MaxProj
    /\ \E pole \in Poles : poles' = Append(poles, pole)
    /\ vertices_coords' = [k \in DOMAIN vertices_coords |-> Project(vertices_coords[k])]
    /\ UNCHANGED <<args, pc, raised, symmetry, vtable, vwords, num_vertices,
                   edge_data, face_data>>

(***************************************************************************)
(* The mirrors and reflections of the helpers, exactly.  A vector is held  *)
(* by its products with the unit normals of the mirrors, which start as    *)
(* init_dist (up to the positive factor that scales the initial point to   *)
(* length 1).  The normals of mirrors i, j meet at -cos(pi / m[i][j]), so  *)
(* reflecting about mirror i negates product i and adds                    *)
(* 2 cos(pi / m[i][j]) times product i to product j.  A number is          *)
(* <<a, b>> for a + b * theta, theta = 2 cos(pi / m) for the one order     *)
(* m > 3 of the diagram: theta^2 = 2, theta + 1, 3 for m = 4, 5, 6.        *)
(***************************************************************************)
ByTheta(x, m) ==
    CASE m = 4 -> <<2 * x[2], x[1]>>
      [] m = 5 -> <<x[2], x[1] + x[2]>>
      [] m = 6 -> <<3 * x[2], x[1]>>

\* x * 2 cos(pi / m)
TwoCos(x, m) ==
    CASE m = 2 -> <<0, 0>>
      [] m = 3 -> x
      [] OTHER -> ByTheta(x, m)

Plus(x, y) == <<x[1] + y[1], x[2] + y[2]>>

\* np.dot(vector, reflections[i])
reflection(c, i) ==
    [j \in DOMAIN c |->
        IF j = i THEN <<-c[i][1], -c[i][2]>>
        ELSE Plus(c[j], TwoCos(c[i], coxeter_matrix[i][j]))]

RECURSIVE ReflectAll(_, _)
ReflectAll(c, refl) ==
    IF refl = <<>> THEN c ELSE ReflectAll(reflection(c, Head(refl)), Tail(refl))

InitProducts == [j \in DOMAIN coxeter_matrix |-> <<args.init_dist[j + 1], 0>>]

\* the vector a stored point stands for
Value(v) == ReflectAll(InitProducts, v.refl)

Next == Construct \/ GetVertices \/ GetEdges \/ GetFaces \/ Proj4d
Spec == Init /\ [][Next]_vars
(***************************************************************************)
(* Properties.                                                             *)
(***************************************************************************)
Built == pc = "built"

\* every face of every list, and every edge of every list
Faces == UNION {Range(face_indices[l]) : l \in 1..Len(face_indices)}
Edges == UNION {Range(edge_indices[l]) : l \in 1..Len(edge_indices)}

\* the lists hold as many entries as the counters say
CountsAgree ==
    /\ num_vertices = Cardinality(DOMAIN vertices_coords)
    /\ num_edges = SumLen(edge_indices)
    /\ num_faces = SumLen(face_indices)

Tetrahedron ==
    [cls |-> "Polyhedra", coxeter_diagram |-> <<3, 2, 3>>, init_dist |-> <<1, 0, 0>>]

\* C1: a Polyhedra built from the diagram (3,2,3) with init_dist (1,0,0) has
\* num_vertices = 4, num_edges = 6, num_faces = 4, and every face in
\* face_indices is a cycle of exactly 3 vertex indices.
C1_Tetrahedron ==
    (Built /\ args = Tetrahedron) =>
        /\ num_vertices = 4
        /\ num_edges = 6
        /\ num_faces = 4
        /\ CountsAgree
        /\ \A f \in Faces : /\ Len(f) = 3
                            /\ Cardinality(Range(f)) = 3
                            /\ Range(f) \subseteq 0..(num_vertices - 1)

C1_Witness == Built /\ args = Tetrahedron /\ Cardinality(Faces) = 4

SnubCube ==
    [cls |-> "Snub", coxeter_diagram |-> <<4, 2, 3>>, init_dist |-> <<1, 1, 1>>]

\* C2: a Snub built from the diagram (4,2,3) has num_vertices = 24 and exactly
\* three face types: 6 four-cycles of the rotation r, 8 three-cycles of the
\* rotation s and 24 triangles (v0, v0 s, v0 rs), so num_faces = 38.
C2_SnubCube ==
    (Built /\ args = SnubCube) =>
        /\ num_vertices = 24
        /\ Len(face_indices) = 3
        /\ face_types = <<Type("rotation", <<0>>), Type("rotation", <<2>>),
                          Type("triangle", <<2, 0, 2>>)>>
        /\ Len(face_indices[1]) = 6
        /\ \A k \in 1..6 : Len(face_indices[1][k]) = 4
        /\ face_indices[1][1] = <<0, move(0, <<0>>), move(0, <<0, 0>>), move(0, <<0, 0, 0>>)>>
        /\ Len(face_indices[2]) = 8
        /\ \A k \in 1..8 : Len(face_indices[2][k]) = 3
        /\ face_indices[2][1] = <<0, move(0, <<2>>), move(0, <<2, 2>>)>>
        /\ Len(face_indices[3]) = 24
        /\ \A k \in 1..24 : Len(face_indices[3][k]) = 3
        /\ face_indices[3][1] = <<0, move(0, <<2>>), move(0, <<0, 2>>)>>
        /\ num_faces = 38
        /\ Cardinality(Faces) = 38

C2_Witness == Built /\ args = SnubCube /\ Len(face_indices[3]) = 24

Irreducible3 == {<<3, 2, 3>>, <<4, 2, 3>>, <<5, 2, 3>>}

\* C3: for a Polyhedra built from (3,2,3), (4,2,3) or (5,2,3) and an init_dist
\* with a nonzero entry, num_vertices - num_edges + num_faces = 2.
C3_Euler ==
    (/\ Built
     /\ args.cls = "Polyhedra"
     /\ args.coxeter_diagram \in Irreducible3
     /\ \E k \in 1..3 : args.init_dist[k] # 0) =>
        /\ num_vertices - num_edges + num_faces = 2
        /\ CountsAgree

C3_Witness ==
    /\ Built
    /\ args.cls = "Polyhedra"
    /\ args.coxeter_diagram = <<5, 2, 3>>
    /\ args.init_dist = <<1, 1, 1>>
    /\ num_vertices = 120
    /\ num_edges = 180
    /\ num_faces = 62

\* the lengths each family asks of the diagram and of init_dist
RequiredLengths(cls) ==
    CASE cls \in {"Polyhedra", "Snub"} -> <<3, 3>>
      [] cls \in {"Polychora", "Snub24Cell"} -> <<6, 4>>
      [] cls = "Polytope5D" -> <<10, 5>>

LengthsMatch ==
    /\ Len(args.coxeter_diagram) = RequiredLengths(args.cls)[1]
    /\ Len(args.init_dist) = RequiredLengths(args.cls)[2]

NoSymmetryData ==
    /\ coxeter_matrix = <<>>
    /\ active = <<>>
    /\ symmetry_gens = <<>>
    /\ symmetry_rels = <<>>

\* C4: constructing a Polyhedra, Polychora or Polytope5D fails with the length
\* error, before any symmetry data is built, whenever the length of the
\* diagram or of init_dist differs from the pair the family requires, and
\* succeeds only when both lengths match.
C4_LengthError ==
    pc # "new" =>
        /\ ~LengthsMatch => (raised = "LengthError" /\ NoSymmetryData)
        /\ LengthsMatch => raised # "LengthError"

\* the divisor of the projection is the pole the caller passed (in tenths)
ProjectWithPole(v, pole) ==
    [kind |-> "coords", refl |-> <<>>,
     num |-> [c \in 1..4 |-> RDiv(Coords(v)[c], RSub(Rat(pole, 10), Coords(v)[5]))]]

\* C5: proj4d(pole) replaces every stored 5D coordinate v by its first four
\* components divided by (pole - v[4]), pole being the value the caller
\* passed, and leaves edge_indices, face_indices and the counts unchanged.
C5_ProjUsesPole ==
    [][(Built /\ poles = <<>> /\ poles' # poles) =>
          /\ vertices_coords' =
                [k \in DOMAIN vertices_coords |->
                    ProjectWithPole(vertices_coords[k], poles'[1])]
          /\ UNCHANGED <<edge_indices, face_indices, num_vertices, num_edges, num_faces>>]_vars

EnumerationFailed == raised \in {"get_vertices", "get_edges", "get_faces"}

NothingPopulated ==
    /\ vertices_coords = <<>>
    /\ edge_indices = <<>>
    /\ face_indices = <<>>
    /\ num_vertices = 0
    /\ num_edges = 0
    /\ num_faces = 0

VerticesPopulated == num_vertices > 0 /\ vwords # <<>> /\ vertices_coords # <<>>
EdgesComplete == Len(edge_indices) = Len(EdgeTypes)
FacesComplete == Len(face_indices) = Len(FaceTypes)

\* C6: build_geometry has no partial state: when an enumeration of
\* get_vertices, get_edges or get_faces fails, none of vertices_coords,
\* edge_indices, face_indices and the counts is populated; otherwise all
\* three collections are.
C6_NoPartialState ==
    /\ EnumerationFailed => NothingPopulated
    /\ Built => (VerticesPopulated /\ EdgesComplete /\ FacesComplete)

\* C6, amended: a failure in get_vertices leaves vertices, edges, faces and
\* counts empty; a failure in get_edges keeps the vertices, with the edge
\* lists of the types before the failing one and no face; a failure in
\* get_faces keeps the vertices and all edge lists, with the face lists of
\* the types before the failing one; after success there is one list per edge
\* type and per face type.  The counts equal the stored entries throughout.
C6_Phases ==
    /\ CountsAgree
    /\ raised = "get_vertices" => NothingPopulated
    /\ raised = "get_edges" =>
          /\ VerticesPopulated
          /\ Len(edge_indices) < Len(EdgeTypes)
          /\ edge_types = SubSeq(EdgeTypes, 1, Len(edge_indices))
          /\ face_indices = <<>> /\ num_faces = 0
    /\ raised = "get_faces" =>
          /\ VerticesPopulated
          /\ EdgesComplete
          /\ Len(face_indices) < Len(FaceTypes)
          /\ face_types = SubSeq(FaceTypes, 1, Len(face_indices))
    /\ Built => (VerticesPopulated /\ EdgesComplete /\ FacesComplete)

C6_Witness ==
    /\ raised = "get_edges"
    /\ num_vertices > 0
    /\ edge_indices # <<>>
    /\ num_edges > 0

\* C7: every pair (a, b) stored in edge_indices has a # b, in every variant.
C7_EdgesDistinct == \A e \in Edges : Len(e) = 2 /\ e[1] # e[2]

C7_Witness == Built /\ args.cls = "Snub24Cell" /\ num_edges = 432

Generates(i, j) ==
    \/ active[i] /\ active[j]
    \/ (active[i] \/ active[j]) /\ coxeter_matrix[i][j] > 2

\* the faces of one list against the type that gave it
MirrorFaces(list, i, j, m) ==
    /\ Generates(i, j)
    /\ \A f \in Range(list) : Len(f) = IF active[i] /\ active[j] THEN 2 * m ELSE m
    /\ move(0, Times(<<i, j>>, m)) = 0

RotationFaces(list, rot, order) ==
    /\ order > 2
    /\ \A f \in Range(list) : Len(f) = order
    /\ move(0, Times(rot, order)) = 0

FaceListClosed(list, type) ==
    CASE type.kind = "mirror" ->
            MirrorFaces(list, type.gens[1], type.gens[2],
                        coxeter_matrix[type.gens[1]][type.gens[2]])
      [] type.kind = "rotation" -> RotationFaces(list, type.gens, Order(type.gens))
      [] type.kind = "triangle" -> \A f \in Range(list) : Len(f) = 3

\* C8: every face cycle has length at least 3 and closes: a face of the
\* mirrors (i, j) with m = coxeter_matrix[i][j] has length 2m when both are
\* active and m when one is active and m > 2, and (i, j) repeated m times
\* moves vertex 0 to itself; a face of a rotation of order > 2 has that order
\* as its length, and the rotation repeated order times moves 0 to itself.
\* No list comes from a pair with neither mirror active, or one and m <= 2.
C8_FaceCycles ==
    /\ \A f \in Faces : Len(f) >= 3
    /\ \A l \in 1..Len(face_indices) : FaceListClosed(face_indices[l], face_types[l])
    /\ (Built /\ ~IsSnub) =>
          {t.gens : t \in Range(face_types)}
              = {p \in Range(combinations(Len(symmetry_gens))) : Generates(p[1], p[2])}

C8_Witness ==
    /\ Built
    /\ \E l \in 1..Len(face_indices) :
          /\ face_types[l].kind = "mirror"
          /\ ~(active[face_types[l].gens[1]] /\ active[face_types[l].gens[2]])
    /\ \E l \in 1..Len(face_indices) :
          /\ face_types[l].kind = "mirror"
          /\ active[face_types[l].gens[1]] /\ active[face_types[l].gens[2]]
    /\ \E p \in Range(combinations(Len(symmetry_gens))) : ~Generates(p[1], p[2])

\* the image of a set of vertices under a generator, and the images of a
\* base set under the whole group
ActOn(S, g) == {vtable[v][g] : v \in S}

Images(F) == F \cup {ActOn(S, g) : S \in F, g \in Range(symmetry_gens)}

RECURSIVE Close(_)
Close(F) == IF Images(F) = F THEN F ELSE Close(Images(F))

VertexSets(list) == {Range(list[k]) : k \in 1..Len(list)}

\* a list holds each image of the base exactly once
ExactOrbit(list, base) ==
    /\ Cardinality(VertexSets(list)) = Len(list)
    /\ VertexSets(list) = Close({base})

\* C9: in the Coxeter case the edge list of type i holds each image of the
\* base edge {0, move(0, (i))} under the group exactly once as an unordered
\* pair, and the face list of type (i, j) each image of the base face exactly
\* once as a vertex set.
C9_FullStabilizer ==
    ~IsSnub =>
        /\ \A l \in 1..Len(edge_indices) :
              ExactOrbit(edge_indices[l], {0, move(0, edge_types[l].gens)})
        /\ \A l \in 1..Len(face_indices) :
              ExactOrbit(face_indices[l],
                         Range(BaseFace(face_types[l].gens[1], face_types[l].gens[2])))

C9_Witness ==
    /\ Built
    /\ args.cls = "Polychora"
    /\ args.coxeter_diagram = <<3, 2, 2, 3, 2, 3>>
    /\ args.init_dist = <<1, 1, 1, 1>>
    /\ num_vertices = 120
    /\ Len(face_indices) = 6

EdgeSets == {{e[1], e[2]} : e \in Edges}

Cyclic(f) == {{f[t], f[(t % Len(f)) + 1]} : t \in 1..Len(f)}

\* C10: in every variant, each pair of cyclically consecutive vertices of each
\* face, last to first included, is one of the edges as an unordered pair.
C10_FaceEdges == \A f \in Faces : Cyclic(f) \subseteq EdgeSets

C10_Witness == Built /\ args.cls = "Snub24Cell" /\ num_faces = 480 /\ Len(face_indices) = 7

\* words over the generators, up to length n
RECURSIVE Words(_)
Words(n) ==
    IF n = 0 THEN {<<>>}
    ELSE Words(n - 1) \cup {Append(w, g) : w \in Words(n - 1), g \in Range(symmetry_gens)}

\* the vertices are stored as points (not yet projected)
PointsStored ==
    /\ num_vertices > 0
    /\ \A k \in DOMAIN vertices_coords : vertices_coords[k].kind = "point"

\* transform and move agree on generator g at vertex k
Agree(k, g) ==
    Value(transform(vertices_coords[k], <<g>>)) = Value(vertices_coords[move(k, <<g>>)])

\* C11: in the Coxeter case, after get_vertices, for every vertex k and
\* generator g, transform(vertices_coords[k], (g,)) is
\* vertices_coords[move(k, (g,))]; transform(init_v, w) is
\* vertices_coords[move(0, w)] for every word w (here up to length MaxWord);
\* and vertices_coords[k] = transform(init_v, vwords[k]) with
\* move(0, vwords[k]) = k.
C11_TransformMove ==
    (~IsSnub /\ PointsStored) =>
        /\ \A k \in DOMAIN vertices_coords : \A g \in Range(symmetry_gens) : Agree(k, g)
        /\ \A w \in Words(MaxWord) :
              Value(transform(init_v, w)) = Value(vertices_coords[move(0, w)])
        /\ \A k \in DOMAIN vertices_coords :
              /\ vertices_coords[k] = transform(init_v, vwords[k])
              /\ move(0, vwords[k]) = k

C11_Witness ==
    /\ ~IsSnub
    /\ PointsStored
    /\ args.coxeter_diagram = <<5, 2, 3>>
    /\ args.init_dist = <<1, 0, 1>>
    /\ num_vertices = 60
    /\ \E k \in DOMAIN vertices_coords : move(k, <<0>>) # k

\* C12: in Snub and Snub24Cell, for every vertex k and every generator g of
\* symmetry_gens, the formal inverses included, transform(vertices_coords[k],
\* (g,)) is vertices_coords[move(k, (g,))].
C12_SnubTransform ==
    (IsSnub /\ PointsStored) =>
        \A k \in DOMAIN vertices_coords : \A g \in Range(symmetry_gens) : Agree(k, g)

====
